---- MODULE Spec2Model ----
(***************************************************************************)
(* Recipe API (davidjadu/api_recipes): the ownership-scoped recipe, tag    *)
(* and ingredient viewsets of app/recipe/views.py and the nested           *)
(* create/update of app/recipe/serializers.py, over the three tables and   *)
(* the two join tables of core.models.                                     *)
(*                                                                         *)
(* Scalars: `title` stands for the required scalar fields of               *)
(* RecipeSerializer.Meta.fields (title, time_minutes, price), `link` for   *)
(* the optional ones (link, description).                                  *)
(***************************************************************************)
EXTENDS Integers, Sequences, FiniteSets, TLC

\* ------------------------------------------------------------------ bounds
MaxRecipeId == 2
MaxTagId == 2
MaxIngredientId == 1
MaxNames == 2

\* ------------------------------------------------------------ input domains
Users == {"u1", "u2"}
TagNames == {"Breakfast", "Lunch"}
IngredientNames == {"Tomato"}
Titles == {"Soup", "Salad"}
Links == {"http://example.com/recipe.pdf"}
NoLink == ""
Absent == "<absent>"

\* collation of the names, ascending (order_by('-name') lists them descending)
NamesAscending == <<"Breakfast", "Lunch", "Tomato">>

NameRank(n) == CHOOSE i \in 1..Len(NamesAscending) : NamesAscending[i] = n

VARIABLES
    recipes,             \* Recipe table: id -> [user, title, link]
    tags,                \* Tag table: id -> [user, name]
    ingredients,         \* Ingredient table: id -> [user, name]
    recipe_tags,         \* join table Recipe-Tag: set of <<recipe id, tag id>>
    recipe_ingredients,  \* join table Recipe-Ingredient
    next_recipe_id,      \* the tables' auto-increment primary keys
    next_tag_id,
    next_ingredient_id,
    res,                 \* the request just handled and its response, until
                         \* the client has read it
    inflight             \* per worker: how far its recipe write has got

vars == <<recipes, tags, ingredients, recipe_tags, recipe_ingredients,
          next_recipe_id, next_tag_id, next_ingredient_id, res, inflight>>

\* ------------------------------------------------------------------ helpers
Range(s) == {s[i] : i \in 1..Len(s)}

SeqsUpTo(S, n) == UNION {[1..k -> S] : k \in 0..n}

\* the rows of a join table that belong to recipe rid
RelOf(rel, rid) == {p[2] : p \in {q \in rel : q[1] = rid}}

\* the database as one value, threaded through the serializer's steps
DB ==
    [recipes |-> recipes, tags |-> tags, ingredients |-> ingredients,
     recipe_tags |-> recipe_tags, recipe_ingredients |-> recipe_ingredients,
     next_recipe_id |-> next_recipe_id, next_tag_id |-> next_tag_id,
     next_ingredient_id |-> next_ingredient_id, exc |-> "none"]

NoList == [given |-> FALSE, names |-> <<>>]
NoQuery == [tags |-> [given |-> FALSE, ids |-> {}],
            ingredients |-> [given |-> FALSE, ids |-> {}],
            assigned_only |-> FALSE]
NoPayload == [title |-> Absent, link |-> Absent, user |-> Absent,
              tags |-> NoList, ingredients |-> NoList, name |-> Absent]

\* a response, with the request it answers
Response(op, u, pk, payload, query, status, data) ==
    [op |-> op, user |-> u, pk |-> pk, payload |-> payload, query |-> query,
     status |-> status, data |-> data]

NoResponse == Response("none", Absent, 0, NoPayload, NoQuery, 0, <<>>)

\* ------------------------------------------------------------------- views
\* get_queryset without the filter on the user
RecipeViewSet_get_queryset_unscoped(db, u) == DOMAIN db.recipes

\* RecipeViewSet.get_queryset: the ids of the user's recipes
RecipeViewSet_get_queryset(db, u) ==
    {r \in DOMAIN db.recipes : db.recipes[r].user = u}

\* ... .order_by('-id')
RECURSIVE OrderByIdDesc(_)
OrderByIdDesc(S) ==
    IF S = {} THEN <<>>
    ELSE LET m == CHOOSE x \in S : \A y \in S : y <= x
         IN  <<m>> \o OrderByIdDesc(S \ {m})

\* get_queryset without the filter on the user
BaseRecipeAttrViewSet_get_queryset_unscoped(objs, u) == DOMAIN objs

\* BaseRecipeAttrViewSet.get_queryset: the ids of the user's tags/ingredients
BaseRecipeAttrViewSet_get_queryset(objs, u) ==
    {t \in DOMAIN objs : objs[t].user = u}

\* ... .order_by('-name'): every row once, names descending; rows of equal
\* name come in an order the database chooses
OrderByNameDesc(objs, S) ==
    {s \in [1..Cardinality(S) -> S] :
        /\ \A i, j \in 1..Cardinality(S) : i # j => s[i] # s[j]
        /\ \A i, j \in 1..Cardinality(S) :
              i < j => NameRank(objs[s[i]].name) >= NameRank(objs[s[j]].name)}

\* GenericAPIView.get_object over get_queryset
get_object(qs, pk) == IF pk \in qs THEN pk ELSE 0

\* ------------------------------------------------------------- serializers
\* a serializer that declares `user` among its writable fields
validated_data_with_user(payload) ==
    [title |-> payload.title, link |-> payload.link, user |-> payload.user,
     tags |-> payload.tags, ingredients |-> payload.ingredients]

\* RecipeSerializer.Meta.fields: the payload keys the serializer declares.
\* `user` is not one of them, so it never reaches validated_data.
validated_data(payload) ==
    [title |-> payload.title, link |-> payload.link, user |-> Absent,
     tags |-> payload.tags, ingredients |-> payload.ingredients]

\* Serializer.is_valid: the required field must be there unless partial
is_valid(required, partial) == partial \/ required # Absent

\* objects.create in place of get_or_create: a new row for every name
get_or_create_always_creates(objs, next_id, auth_user, n) ==
    [objs |-> objs @@ (next_id :> [user |-> auth_user, name |-> n]),
     next_id |-> next_id + 1, obj |-> next_id, exc |-> "none"]

\* get_or_create(name=n): the lookup without the user
get_or_create_any_user(objs, next_id, auth_user, n) ==
    LET found == {i \in DOMAIN objs : objs[i].name = n}
    IN  IF Cardinality(found) > 1
        THEN [objs |-> objs, next_id |-> next_id, obj |-> 0,
              exc |-> "MultipleObjectsReturned"]
        ELSE IF found = {}
        THEN [objs |-> objs @@ (next_id :> [user |-> auth_user, name |-> n]),
              next_id |-> next_id + 1, obj |-> next_id, exc |-> "none"]
        ELSE [objs |-> objs, next_id |-> next_id,
              obj |-> CHOOSE i \in found : TRUE, exc |-> "none"]

\* QuerySet.get_or_create(user=auth_user, name=n) on one table:
\* the row matching (user, name), created when there is none; .get() raises
\* MultipleObjectsReturned when several rows match
get_or_create(objs, next_id, auth_user, n) ==
    LET found == {i \in DOMAIN objs :
                     objs[i].user = auth_user /\ objs[i].name = n}
    IN  IF Cardinality(found) > 1
        THEN [objs |-> objs, next_id |-> next_id, obj |-> 0,
              exc |-> "MultipleObjectsReturned"]
        ELSE IF found = {}
        THEN [objs |-> objs @@ (next_id :> [user |-> auth_user, name |-> n]),
              next_id |-> next_id + 1, obj |-> next_id, exc |-> "none"]
        ELSE [objs |-> objs, next_id |-> next_id,
              obj |-> CHOOSE i \in found : TRUE, exc |-> "none"]

\* RecipeSerializer._get_or_create_tags
RECURSIVE get_or_create_tags(_, _, _, _)
get_or_create_tags(tags_data, instance, auth_user, db) ==
    IF tags_data = <<>> \/ db.exc # "none" THEN db
    ELSE LET g == get_or_create(db.tags, db.next_tag_id, auth_user,
                                Head(tags_data))
         IN  IF g.exc # "none" THEN [db EXCEPT !.exc = g.exc]
             ELSE get_or_create_tags(Tail(tags_data), instance, auth_user,
                     [db EXCEPT !.tags = g.objs,
                                !.next_tag_id = g.next_id,
                                !.recipe_tags = @ \cup {<<instance, g.obj>>}])

\* RecipeSerializer._get_or_create_ingredients
RECURSIVE get_or_create_ingredients(_, _, _, _)
get_or_create_ingredients(ingredients_data, instance, auth_user, db) ==
    IF ingredients_data = <<>> \/ db.exc # "none" THEN db
    ELSE LET g == get_or_create(db.ingredients, db.next_ingredient_id,
                                auth_user, Head(ingredients_data))
         IN  IF g.exc # "none" THEN [db EXCEPT !.exc = g.exc]
             ELSE get_or_create_ingredients(Tail(ingredients_data), instance,
                     auth_user,
                     [db EXCEPT !.ingredients = g.objs,
                                !.next_ingredient_id = g.next_id,
                                !.recipe_ingredients =
                                    @ \cup {<<instance, g.obj>>}])

\* RecipeSerializer.create, called by perform_create's save(user=request.user)
RecipeSerializer_create(vd, auth_user, db) ==
    LET tags_data == IF vd.tags.given THEN vd.tags.names ELSE <<>>
        ingredients_data ==
            IF vd.ingredients.given THEN vd.ingredients.names ELSE <<>>
        recipe == db.next_recipe_id
        db1 == [db EXCEPT
                  !.recipes = @ @@ (recipe :>
                      [user |-> auth_user, title |-> vd.title,
                       link |-> IF vd.link = Absent THEN NoLink ELSE vd.link]),
                  !.next_recipe_id = recipe + 1]
        db2 == get_or_create_tags(tags_data, recipe, auth_user, db1)
    IN  get_or_create_ingredients(ingredients_data, recipe, auth_user, db2)

\* a clear() that removes nothing
clear_nothing(rel, instance) == rel

\* instance.tags.clear() / instance.ingredients.clear()
clear(rel, instance) == {p \in rel : p[1] # instance}

\* a save that writes the declared default over every optional field the
\* payload leaves out
setattr_save_resets_absent(vd, instance, db) ==
    IF db.exc # "none" THEN db
    ELSE [db EXCEPT !.recipes[instance] =
            [user  |-> IF vd.user = Absent THEN @.user ELSE vd.user,
             title |-> IF vd.title = Absent THEN @.title ELSE vd.title,
             link  |-> IF vd.link = Absent THEN NoLink ELSE vd.link]]

\* the setattr loop without the instance.save() after it
setattr_unsaved(vd, instance, db) == db

\* for k, v in validated_data.items(): setattr(instance, k, v); instance.save()
setattr_save(vd, instance, db) ==
    IF db.exc # "none" THEN db
    ELSE [db EXCEPT !.recipes[instance] =
            [user  |-> IF vd.user = Absent THEN @.user ELSE vd.user,
             title |-> IF vd.title = Absent THEN @.title ELSE vd.title,
             link  |-> IF vd.link = Absent THEN @.link ELSE vd.link]]

\* update testing the lists for truth (`if tags_data:`), so that an empty
\* list is taken for an omitted one
RecipeSerializer_update_truthy(instance, vd, auth_user, db) ==
    LET db1 == IF vd.tags.given /\ vd.tags.names # <<>>
               THEN get_or_create_tags(vd.tags.names, instance, auth_user,
                        [db EXCEPT !.recipe_tags = clear(@, instance)])
               ELSE db
        db2 == IF vd.ingredients.given /\ vd.ingredients.names # <<>>
                  /\ db1.exc = "none"
               THEN get_or_create_ingredients(vd.ingredients.names, instance,
                        auth_user,
                        [db1 EXCEPT !.recipe_ingredients = clear(@, instance)])
               ELSE db1
    IN  setattr_save(vd, instance, db2)

\* update with instance.tags.all().delete() in place of instance.tags.clear():
\* the entities go, not only the relation rows
RecipeSerializer_update_deleting(instance, vd, auth_user, db) ==
    LET gone_tags == RelOf(db.recipe_tags, instance)
        db1 == IF vd.tags.given
               THEN get_or_create_tags(vd.tags.names, instance, auth_user,
                        [db EXCEPT
                            !.tags = [t \in DOMAIN @ \ gone_tags |-> @[t]],
                            !.recipe_tags =
                                {q \in @ : q[2] \notin gone_tags}])
               ELSE db
        gone_ingredients == RelOf(db.recipe_ingredients, instance)
        db2 == IF vd.ingredients.given /\ db1.exc = "none"
               THEN get_or_create_ingredients(vd.ingredients.names, instance,
                        auth_user,
                        [db1 EXCEPT
                            !.ingredients =
                                [t \in DOMAIN @ \ gone_ingredients |-> @[t]],
                            !.recipe_ingredients =
                                {q \in @ : q[2] \notin gone_ingredients}])
               ELSE db1
    IN  setattr_save(vd, instance, db2)

\* RecipeSerializer.update
RecipeSerializer_update(instance, vd, auth_user, db) ==
    LET db1 == IF vd.tags.given
               THEN get_or_create_tags(vd.tags.names, instance, auth_user,
                        [db EXCEPT !.recipe_tags = clear(@, instance)])
               ELSE db
        db2 == IF vd.ingredients.given /\ db1.exc = "none"
               THEN get_or_create_ingredients(vd.ingredients.names, instance,
                        auth_user,
                        [db1 EXCEPT !.recipe_ingredients = clear(@, instance)])
               ELSE db1
    IN  setattr_save(vd, instance, db2)

\* TagSerializer / IngredientSerializer: fields = ['id', 'name'], id read-only
AttrSerializer_update(objs, instance, name) ==
    IF name = Absent THEN objs
    ELSE [objs EXCEPT ![instance].name = name]

\* ----------------------------------------------------------------- requests
NameLists(names) ==
    {NoList} \cup {[given |-> TRUE, names |-> s] : s \in SeqsUpTo(names, MaxNames)}

\* payloads that write the relations, with the required scalar in a POST or
\* PUT: either list of any length up to MaxNames alone, or both lists of at
\* most one name
RelationPayloads(partial) ==
    {p \in [title : IF partial THEN {Absent} ELSE {"Soup"}, link : {Absent},
            user : {Absent}, tags : NameLists(TagNames),
            ingredients : NameLists(IngredientNames), name : {Absent}] :
        \/ ~p.tags.given
        \/ ~p.ingredients.given
        \/ Len(p.tags.names) <= 1 /\ Len(p.ingredients.names) <= 1}

\* payloads that write the scalar fields, some carrying a `user`
ScalarPayloads(partial) ==
    [title : Titles \cup {Absent}, link : Links \cup {Absent},
     user : Users \cup {Absent}, tags : {NoList}, ingredients : {NoList},
     name : {Absent}]

NamePayloads(names) ==
    {[NoPayload EXCEPT !.name = n] : n \in names \cup {Absent}}

IdLists(max) == {[given |-> FALSE, ids |-> {}]} \cup
                {[given |-> TRUE, ids |-> {i}] : i \in 1..max}

RecipeQueries ==
    [tags : IdLists(MaxTagId), ingredients : IdLists(MaxIngredientId),
     assigned_only : {FALSE}]

AttrQueries ==
    [tags : {NoQuery.tags}, ingredients : {NoQuery.ingredients},
     assigned_only : BOOLEAN]

\* the primary keys a request may name; a key not handed out yet, or of a
\* deleted row, is one that no row has
RecipePks == 1..MaxRecipeId
TagPks == 1..MaxTagId
IngredientPks == 1..MaxIngredientId

\* the model stops handing out primary keys at the bounds: a request that
\* would need one more is not taken
WithinBounds(db) ==
    /\ db.next_recipe_id <= MaxRecipeId + 1
    /\ db.next_tag_id <= MaxTagId + 1
    /\ db.next_ingredient_id <= MaxIngredientId + 1

\* a request handled with no other request in flight writes all it writes
Commit(db) ==
    /\ WithinBounds(db)
    /\ UNCHANGED inflight
    /\ recipes' = db.recipes
    /\ tags' = db.tags
    /\ ingredients' = db.ingredients
    /\ recipe_tags' = db.recipe_tags
    /\ recipe_ingredients' = db.recipe_ingredients
    /\ next_recipe_id' = db.next_recipe_id
    /\ next_tag_id' = db.next_tag_id
    /\ next_ingredient_id' = db.next_ingredient_id

Unchanged ==
    UNCHANGED <<recipes, tags, ingredients, recipe_tags, recipe_ingredients,
                next_recipe_id, next_tag_id, next_ingredient_id, inflight>>

\* the server takes the next request once the client has read the response
Idle == res = NoResponse

\* the client reads the response
Reply ==
    /\ ~Idle
    /\ res' = NoResponse
    /\ Unchanged

UpdateOp(base, partial) ==
    IF partial THEN base \o "-partial-update" ELSE base \o "-update"

\* the operations of the three viewsets, as the responses name them
RecipeOps == {"recipe-list", "recipe-retrieve", "recipe-create",
              "recipe-update", "recipe-partial-update", "recipe-destroy"}
RecipeUpdateOps == {"recipe-update", "recipe-partial-update"}
RecipeWriteOps == RecipeUpdateOps \cup {"recipe-create"}
TagOps == {"tag-list", "tag-update", "tag-partial-update", "tag-destroy"}
IngredientOps == {"ingredient-list", "ingredient-update",
                  "ingredient-partial-update", "ingredient-destroy"}

\* ------------------------------------------------------- RecipeViewSet
\* GET /recipes/ (ListModelMixin.list over get_queryset)
RecipeList(u, query) ==
    /\ Idle
    /\ Unchanged
    /\ res' = Response("recipe-list", u, 0, NoPayload, query, 200,
                       OrderByIdDesc(RecipeViewSet_get_queryset(DB, u)))

\* GET /recipes/pk/ (RetrieveModelMixin.retrieve)
RecipeRetrieve(u, pk) ==
    LET instance == get_object(RecipeViewSet_get_queryset(DB, u), pk)
    IN  /\ Idle
        /\ Unchanged
        /\ res' = IF instance = 0
                  THEN Response("recipe-retrieve", u, pk, NoPayload, NoQuery,
                                404, <<>>)
                  ELSE Response("recipe-retrieve", u, pk, NoPayload, NoQuery,
                                200, <<instance>>)

\* POST /recipes/ (CreateModelMixin.create, RecipeViewSet.perform_create)
RecipeCreate(u, payload) ==
    /\ Idle
    /\ IF ~is_valid(payload.title, FALSE)
       THEN /\ Unchanged
            /\ res' = Response("recipe-create", u, 0, payload, NoQuery,
                               400, <<>>)
       ELSE LET db == RecipeSerializer_create(validated_data(payload), u, DB)
            IN  /\ Commit(db)
                /\ res' = IF db.exc = "none"
                          THEN Response("recipe-create", u, next_recipe_id,
                                        payload, NoQuery, 201,
                                        <<next_recipe_id>>)
                          ELSE Response("recipe-create", u, next_recipe_id,
                                        payload, NoQuery, 500, <<>>)

\* PUT, PATCH /recipes/pk/ (UpdateModelMixin.update, partial_update)
RecipeUpdate(u, pk, payload, partial) ==
    LET instance == get_object(RecipeViewSet_get_queryset(DB, u), pk)
        op == UpdateOp("recipe", partial)
    IN  /\ Idle
        /\ IF instance = 0
           THEN /\ Unchanged
                /\ res' = Response(op, u, pk, payload, NoQuery, 404, <<>>)
           ELSE IF ~is_valid(payload.title, partial)
           THEN /\ Unchanged
                /\ res' = Response(op, u, pk, payload, NoQuery, 400, <<>>)
           ELSE LET db == RecipeSerializer_update(instance,
                              validated_data(payload), u, DB)
                IN  /\ Commit(db)
                    /\ res' = IF db.exc = "none"
                              THEN Response(op, u, pk, payload, NoQuery, 200,
                                            <<instance>>)
                              ELSE Response(op, u, pk, payload, NoQuery, 500,
                                            <<>>)

\* a delete that cascades over the relation to the tags and ingredients of
\* the recipe
RecipeDestroy_cascading(u, pk) ==
    LET instance == get_object(RecipeViewSet_get_queryset(DB, u), pk)
        gone_tags == RelOf(recipe_tags, instance)
        gone_ingredients == RelOf(recipe_ingredients, instance)
    IN  /\ Idle
        /\ IF instance = 0
           THEN /\ Unchanged
                /\ res' = Response("recipe-destroy", u, pk, NoPayload,
                                   NoQuery, 404, <<>>)
           ELSE /\ Commit([DB EXCEPT
                       !.recipes = [r \in DOMAIN @ \ {instance} |-> @[r]],
                       !.tags = [t \in DOMAIN @ \ gone_tags |-> @[t]],
                       !.ingredients =
                           [t \in DOMAIN @ \ gone_ingredients |-> @[t]],
                       !.recipe_tags = {q \in @ : q[2] \notin gone_tags},
                       !.recipe_ingredients =
                           {q \in @ : q[2] \notin gone_ingredients}])
                /\ res' = Response("recipe-destroy", u, pk, NoPayload,
                                   NoQuery, 204, <<>>)

\* DELETE /recipes/pk/ (DestroyModelMixin.destroy): the row and its join rows
RecipeDestroy(u, pk) ==
    LET instance == get_object(RecipeViewSet_get_queryset(DB, u), pk)
    IN  /\ Idle
        /\ IF instance = 0
           THEN /\ Unchanged
                /\ res' = Response("recipe-destroy", u, pk, NoPayload,
                                   NoQuery, 404, <<>>)
           ELSE /\ Commit([DB EXCEPT
                       !.recipes = [r \in DOMAIN @ \ {instance} |-> @[r]],
                       !.recipe_tags = clear(@, instance),
                       !.recipe_ingredients = clear(@, instance)])
                /\ res' = Response("recipe-destroy", u, pk, NoPayload,
                                   NoQuery, 204, <<>>)

\* ------------------------------------------- TagViewSet, IngredientViewSet
\* a listing that, under assigned_only, joins the tags to the relation and
\* keeps every joined row (filter(recipe__isnull=False) without distinct())
TagList_joined_rows(u, query) ==
    LET qs == BaseRecipeAttrViewSet_get_queryset(tags, u)
        rows == {p \in recipe_tags : p[2] \in qs}
        n == Cardinality(rows)
    IN  /\ Idle
        /\ Unchanged
        /\ IF query.assigned_only
           THEN \E s \in [1..n -> rows] :
                   /\ \A i, j \in 1..n : i # j => s[i] # s[j]
                   /\ \A i, j \in 1..n : i < j =>
                         NameRank(tags[s[i][2]].name)
                             >= NameRank(tags[s[j][2]].name)
                   /\ res' = Response("tag-list", u, 0, NoPayload, query, 200,
                                      [i \in 1..n |-> s[i][2]])
           ELSE \E data \in OrderByNameDesc(tags, qs) :
                   res' = Response("tag-list", u, 0, NoPayload, query, 200,
                                   data)

\* GET /tags/
TagList(u, query) ==
    /\ Idle
    /\ Unchanged
    /\ \E data \in OrderByNameDesc(tags,
                       BaseRecipeAttrViewSet_get_queryset(tags, u)) :
          res' = Response("tag-list", u, 0, NoPayload, query, 200, data)

\* PUT, PATCH /tags/pk/
TagUpdate(u, pk, payload, partial) ==
    LET instance == get_object(BaseRecipeAttrViewSet_get_queryset(tags, u), pk)
        op == UpdateOp("tag", partial)
    IN  /\ Idle
        /\ IF instance = 0
           THEN /\ Unchanged
                /\ res' = Response(op, u, pk, payload, NoQuery, 404, <<>>)
           ELSE IF ~is_valid(payload.name, partial)
           THEN /\ Unchanged
                /\ res' = Response(op, u, pk, payload, NoQuery, 400, <<>>)
           ELSE /\ Commit([DB EXCEPT !.tags =
                       AttrSerializer_update(@, instance, payload.name)])
                /\ res' = Response(op, u, pk, payload, NoQuery, 200,
                                   <<instance>>)

\* DELETE /tags/pk/: the row and its join rows
TagDestroy(u, pk) ==
    LET instance == get_object(BaseRecipeAttrViewSet_get_queryset(tags, u), pk)
    IN  /\ Idle
        /\ IF instance = 0
           THEN /\ Unchanged
                /\ res' = Response("tag-destroy", u, pk, NoPayload, NoQuery,
                                   404, <<>>)
           ELSE /\ Commit([DB EXCEPT
                       !.tags = [t \in DOMAIN @ \ {instance} |-> @[t]],
                       !.recipe_tags = {p \in @ : p[2] # instance}])
                /\ res' = Response("tag-destroy", u, pk, NoPayload, NoQuery,
                                   204, <<>>)

\* GET /ingredients/
IngredientList(u, query) ==
    /\ Idle
    /\ Unchanged
    /\ \E data \in OrderByNameDesc(ingredients,
                       BaseRecipeAttrViewSet_get_queryset(ingredients, u)) :
          res' = Response("ingredient-list", u, 0, NoPayload, query, 200, data)

\* PUT, PATCH /ingredients/pk/
IngredientUpdate(u, pk, payload, partial) ==
    LET instance ==
            get_object(BaseRecipeAttrViewSet_get_queryset(ingredients, u), pk)
        op == UpdateOp("ingredient", partial)
    IN  /\ Idle
        /\ IF instance = 0
           THEN /\ Unchanged
                /\ res' = Response(op, u, pk, payload, NoQuery, 404, <<>>)
           ELSE IF ~is_valid(payload.name, partial)
           THEN /\ Unchanged
                /\ res' = Response(op, u, pk, payload, NoQuery, 400, <<>>)
           ELSE /\ Commit([DB EXCEPT !.ingredients =
                       AttrSerializer_update(@, instance, payload.name)])
                /\ res' = Response(op, u, pk, payload, NoQuery, 200,
                                   <<instance>>)

\* DELETE /ingredients/pk/
IngredientDestroy(u, pk) ==
    LET instance ==
            get_object(BaseRecipeAttrViewSet_get_queryset(ingredients, u), pk)
    IN  /\ Idle
        /\ IF instance = 0
           THEN /\ Unchanged
                /\ res' = Response("ingredient-destroy", u, pk, NoPayload,
                                   NoQuery, 404, <<>>)
           ELSE /\ Commit([DB EXCEPT
                       !.ingredients = [t \in DOMAIN @ \ {instance} |-> @[t]],
                       !.recipe_ingredients = {p \in @ : p[2] # instance}])
                /\ res' = Response("ingredient-destroy", u, pk, NoPayload,
                                   NoQuery, 204, <<>>)

\* ------------------------------------------- requests without a credential
\* request.user when TokenAuthentication finds no token in the request
AnonymousUser == "AnonymousUser"

\* permission_classes = [AllowAny]
AllowAny_has_permission(u) == TRUE

\* permission_classes = [IsAuthenticated]
IsAuthenticated_has_permission(u) == u # AnonymousUser

\* the requests sent without a credential: every operation of the three
\* viewsets, on every primary key, the writes with a payload
AnonymousRequests ==
    LET recipe == [NoPayload EXCEPT !.title = "Soup",
                      !.tags = [given |-> TRUE, names |-> <<"Breakfast">>]]
        tag == [NoPayload EXCEPT !.name = "Lunch"]
        ingredient == [NoPayload EXCEPT !.name = "Tomato"]
    IN  [op : {"recipe-list", "tag-list", "ingredient-list"}, pk : {0},
         payload : {NoPayload}]
        \cup [op : {"recipe-create"}, pk : {0}, payload : {recipe}]
        \cup [op : {"recipe-retrieve", "recipe-destroy"}, pk : RecipePks,
              payload : {NoPayload}]
        \cup [op : RecipeUpdateOps, pk : RecipePks, payload : {recipe}]
        \cup [op : {"tag-destroy"}, pk : TagPks, payload : {NoPayload}]
        \cup [op : {"tag-update", "tag-partial-update"}, pk : TagPks,
              payload : {tag}]
        \cup [op : {"ingredient-destroy"}, pk : IngredientPks,
              payload : {NoPayload}]
        \cup [op : {"ingredient-update", "ingredient-partial-update"},
              pk : IngredientPks, payload : {ingredient}]

\* APIView.initial for a request without a credential: check_permissions
\* refuses it before the handler runs, and since TokenAuthentication has an
\* authenticate_header the refusal is a 401. Were it let through, the
\* handler's filter(user=request.user) or save(user=request.user) would
\* raise on the AnonymousUser.
NotAuthenticated(req) ==
    /\ Idle
    /\ Unchanged
    /\ res' = IF ~IsAuthenticated_has_permission(AnonymousUser)
              THEN Response(req.op, AnonymousUser, req.pk, req.payload,
                            NoQuery, 401, <<>>)
              ELSE Response(req.op, AnonymousUser, req.pk, req.payload,
                            NoQuery, 500, <<>>)

\* ------------------------------------------------------------ specification
Workers == {"w1", "w2"}

NotInFlight ==
    [pc |-> "idle", op |-> "none", user |-> Absent, instance |-> 0,
     tags_data |-> <<>>, ingredients |-> NoList, obj |-> 0]

Init ==
    /\ inflight = [w \in Workers |-> NotInFlight]
    /\ recipes = <<>>
    /\ tags = <<>>
    /\ ingredients = <<>>
    /\ recipe_tags = {}
    /\ recipe_ingredients = {}
    /\ next_recipe_id = 1
    /\ next_tag_id = 1
    /\ next_ingredient_id = 1
    /\ res = NoResponse

RecipeReads ==
    \/ \E u \in Users, query \in RecipeQueries : RecipeList(u, query)
    \/ \E u \in Users, pk \in RecipePks : RecipeRetrieve(u, pk)

Next ==
    \/ RecipeReads
    \/ \E u \in Users, payload \in RelationPayloads(FALSE) :
          RecipeCreate(u, payload)
    \/ \E u \in Users, pk \in RecipePks, partial \in BOOLEAN :
          \E payload \in RelationPayloads(partial) :
             RecipeUpdate(u, pk, payload, partial)
    \/ \E u \in Users, pk \in RecipePks : RecipeDestroy(u, pk)
    \/ \E u \in Users, query \in AttrQueries : TagList(u, query)
    \/ \E u \in Users, pk \in TagPks, payload \in NamePayloads(TagNames),
          partial \in BOOLEAN : TagUpdate(u, pk, payload, partial)
    \/ \E u \in Users, pk \in TagPks : TagDestroy(u, pk)
    \/ \E u \in Users, query \in AttrQueries : IngredientList(u, query)
    \/ \E u \in Users, pk \in IngredientPks,
          payload \in NamePayloads(IngredientNames),
          partial \in BOOLEAN : IngredientUpdate(u, pk, payload, partial)
    \/ \E u \in Users, pk \in IngredientPks : IngredientDestroy(u, pk)
    \/ \E req \in AnonymousRequests : NotAuthenticated(req)
    \/ Reply

\* sequential requests that write and read the relations
Spec == Init /\ [][Next]_vars

NextScalar ==
    \/ RecipeReads
    \/ \E u \in Users, payload \in ScalarPayloads(FALSE) :
          RecipeCreate(u, payload)
    \/ \E u \in Users, pk \in RecipePks, partial \in BOOLEAN :
          \E payload \in ScalarPayloads(partial) :
             RecipeUpdate(u, pk, payload, partial)
    \/ \E u \in Users, pk \in RecipePks : RecipeDestroy(u, pk)
    \/ Reply

\* sequential requests that write the scalar fields of the recipes
SpecScalar == Init /\ [][NextScalar]_vars

\* ------------------------------------------------- interleaved requests
\* Two workers serve recipe writes at the same time. Each statement the
\* serializer sends to the database is a step of its own: the insert of the
\* recipe, the clear() of a relation, and, per listed name, the SELECT and
\* the INSERT of get_or_create and the add() to the relation.

\* payloads of the interleaved writes: PATCH and POST payloads whose lists,
\* if there, have one name, the same name in every request
InterleavedPayloads(partial) ==
    {p \in RelationPayloads(partial) :
        /\ p.tags.given => p.tags.names = <<"Breakfast">>
        /\ p.ingredients.given => Len(p.ingredients.names) = 1}

AllIdle == \A w \in Workers : inflight[w].pc = "idle"

\* the names the requests in flight have still to resolve
RECURSIVE PendingTags(_)
PendingTags(W) ==
    IF W = {} THEN 0
    ELSE LET w == CHOOSE x \in W : TRUE
         IN  Len(inflight[w].tags_data) + PendingTags(W \ {w})

RECURSIVE PendingIngredients(_)
PendingIngredients(W) ==
    IF W = {} THEN 0
    ELSE LET w == CHOOSE x \in W : TRUE
         IN  Len(inflight[w].ingredients.names) + PendingIngredients(W \ {w})

\* a write is taken only if the primary keys cannot run out under it
Admitted(payload) ==
    /\ next_tag_id - 1 + PendingTags(Workers) + Len(payload.tags.names)
          <= MaxTagId
    /\ next_ingredient_id - 1 + PendingIngredients(Workers)
          + Len(payload.ingredients.names) <= MaxIngredientId

\* where a request goes on once its tags are done: update() clears the
\* ingredients if the payload has the list, create() goes through its list
AfterTags(r) ==
    IF r.op = "recipe-create"
    THEN IF r.ingredients.names # <<>> THEN "get_ingredient" ELSE "save"
    ELSE IF r.ingredients.given THEN "clear_ingredients" ELSE "save"

\* RecipeSerializer.create: Recipe.objects.create(**validated_data)
BeginCreate(w, u, payload) ==
    /\ inflight[w].pc = "idle"
    /\ is_valid(payload.title, FALSE)
    /\ next_recipe_id <= MaxRecipeId
    /\ Admitted(payload)
    /\ LET vd == validated_data(payload)
           r == [pc |-> "", op |-> "recipe-create", user |-> u,
                 instance |-> next_recipe_id, tags_data |-> vd.tags.names,
                 ingredients |-> vd.ingredients, obj |-> 0]
       IN  /\ recipes' = recipes @@ (next_recipe_id :>
                  [user |-> u, title |-> vd.title,
                   link |-> IF vd.link = Absent THEN NoLink ELSE vd.link])
           /\ next_recipe_id' = next_recipe_id + 1
           /\ inflight' = [inflight EXCEPT ![w] =
                  [r EXCEPT !.pc = IF vd.tags.names # <<>> THEN "get_tag"
                                   ELSE AfterTags(r)]]
    /\ UNCHANGED <<tags, ingredients, recipe_tags, recipe_ingredients,
                   next_tag_id, next_ingredient_id, res>>

\* UpdateModelMixin.update: get_object, then RecipeSerializer.update
BeginUpdate(w, u, pk, payload, partial) ==
    /\ inflight[w].pc = "idle"
    /\ get_object(RecipeViewSet_get_queryset(DB, u), pk) # 0
    /\ is_valid(payload.title, partial)
    /\ Admitted(payload)
    /\ LET vd == validated_data(payload)
           r == [pc |-> "", op |-> UpdateOp("recipe", partial), user |-> u,
                 instance |-> pk, tags_data |-> vd.tags.names,
                 ingredients |-> vd.ingredients, obj |-> 0]
       IN  inflight' = [inflight EXCEPT ![w] =
               [r EXCEPT !.pc = IF vd.tags.given THEN "clear_tags"
                                ELSE AfterTags(r)]]
    /\ UNCHANGED <<recipes, tags, ingredients, recipe_tags,
                   recipe_ingredients, next_recipe_id, next_tag_id,
                   next_ingredient_id, res>>

\* instance.tags.clear()
ClearTags(w) ==
    /\ inflight[w].pc = "clear_tags"
    /\ recipe_tags' = clear(recipe_tags, inflight[w].instance)
    /\ inflight' = [inflight EXCEPT ![w].pc =
           IF inflight[w].tags_data # <<>> THEN "get_tag"
           ELSE AfterTags(inflight[w])]
    /\ UNCHANGED <<recipes, tags, ingredients, recipe_ingredients,
                   next_recipe_id, next_tag_id, next_ingredient_id, res>>

\* get_or_create: self.get(user=auth_user, name=...)
GetTag(w) ==
    /\ inflight[w].pc = "get_tag"
    /\ LET r == inflight[w]
           found == {t \in DOMAIN tags :
                        /\ tags[t].user = r.user
                        /\ tags[t].name = Head(r.tags_data)}
       IN  inflight' = [inflight EXCEPT ![w] =
               IF Cardinality(found) > 1 THEN NotInFlight
               ELSE IF found = {} THEN [r EXCEPT !.pc = "create_tag"]
               ELSE [r EXCEPT !.pc = "add_tag",
                              !.obj = CHOOSE t \in found : TRUE]]
    /\ UNCHANGED <<recipes, tags, ingredients, recipe_tags,
                   recipe_ingredients, next_recipe_id, next_tag_id,
                   next_ingredient_id, res>>

\* get_or_create: self.create(user=auth_user, name=...) after DoesNotExist
CreateTag(w) ==
    /\ inflight[w].pc = "create_tag"
    /\ tags' = tags @@ (next_tag_id :>
           [user |-> inflight[w].user, name |-> Head(inflight[w].tags_data)])
    /\ next_tag_id' = next_tag_id + 1
    /\ inflight' = [inflight EXCEPT ![w].pc = "add_tag",
                                    ![w].obj = next_tag_id]
    /\ UNCHANGED <<recipes, ingredients, recipe_tags, recipe_ingredients,
                   next_recipe_id, next_ingredient_id, res>>

\* instance.tags.add(tag)
AddTag(w) ==
    /\ inflight[w].pc = "add_tag"
    /\ LET r == inflight[w]
           rest == [r EXCEPT !.tags_data = Tail(@), !.obj = 0]
       IN  /\ recipe_tags' = recipe_tags \cup {<<r.instance, r.obj>>}
           /\ inflight' = [inflight EXCEPT ![w] =
                  [rest EXCEPT !.pc = IF rest.tags_data # <<>> THEN "get_tag"
                                      ELSE AfterTags(rest)]]
    /\ UNCHANGED <<recipes, tags, ingredients, recipe_ingredients,
                   next_recipe_id, next_tag_id, next_ingredient_id, res>>

\* instance.ingredients.clear()
ClearIngredients(w) ==
    /\ inflight[w].pc = "clear_ingredients"
    /\ recipe_ingredients' = clear(recipe_ingredients, inflight[w].instance)
    /\ inflight' = [inflight EXCEPT ![w].pc =
           IF inflight[w].ingredients.names # <<>> THEN "get_ingredient"
           ELSE "save"]
    /\ UNCHANGED <<recipes, tags, ingredients, recipe_tags,
                   next_recipe_id, next_tag_id, next_ingredient_id, res>>

\* get_or_create: self.get(user=auth_user, name=...)
GetIngredient(w) ==
    /\ inflight[w].pc = "get_ingredient"
    /\ LET r == inflight[w]
           found == {t \in DOMAIN ingredients :
                        /\ ingredients[t].user = r.user
                        /\ ingredients[t].name = Head(r.ingredients.names)}
       IN  inflight' = [inflight EXCEPT ![w] =
               IF Cardinality(found) > 1 THEN NotInFlight
               ELSE IF found = {} THEN [r EXCEPT !.pc = "create_ingredient"]
               ELSE [r EXCEPT !.pc = "add_ingredient",
                              !.obj = CHOOSE t \in found : TRUE]]
    /\ UNCHANGED <<recipes, tags, ingredients, recipe_tags,
                   recipe_ingredients, next_recipe_id, next_tag_id,
                   next_ingredient_id, res>>

\* get_or_create: self.create(user=auth_user, name=...) after DoesNotExist
CreateIngredient(w) ==
    /\ inflight[w].pc = "create_ingredient"
    /\ ingredients' = ingredients @@ (next_ingredient_id :>
           [user |-> inflight[w].user,
            name |-> Head(inflight[w].ingredients.names)])
    /\ next_ingredient_id' = next_ingredient_id + 1
    /\ inflight' = [inflight EXCEPT ![w].pc = "add_ingredient",
                                    ![w].obj = next_ingredient_id]
    /\ UNCHANGED <<recipes, tags, recipe_tags, recipe_ingredients,
                   next_recipe_id, next_tag_id, res>>

\* instance.ingredients.add(ingredient)
AddIngredient(w) ==
    /\ inflight[w].pc = "add_ingredient"
    /\ LET r == inflight[w]
           rest == [r EXCEPT !.ingredients.names = Tail(@), !.obj = 0]
       IN  /\ recipe_ingredients' =
                  recipe_ingredients \cup {<<r.instance, r.obj>>}
           /\ inflight' = [inflight EXCEPT ![w] =
                  [rest EXCEPT !.pc = IF rest.ingredients.names # <<>>
                                      THEN "get_ingredient" ELSE "save"]]
    /\ UNCHANGED <<recipes, tags, ingredients, recipe_tags,
                   next_recipe_id, next_tag_id, next_ingredient_id, res>>

\* update(): instance.save(), with no scalar in the payload; create():
\* return recipe. The worker is free again.
Finish(w) ==
    /\ inflight[w].pc = "save"
    /\ inflight' = [inflight EXCEPT ![w] = NotInFlight]
    /\ UNCHANGED <<recipes, tags, ingredients, recipe_tags,
                   recipe_ingredients, next_recipe_id, next_tag_id,
                   next_ingredient_id, res>>

NextInterleaved ==
    \/ \E w \in Workers, u \in Users, payload \in InterleavedPayloads(FALSE) :
          BeginCreate(w, u, payload)
    \/ \E w \in Workers, u \in Users, pk \in RecipePks :
          \E payload \in InterleavedPayloads(TRUE) :
             BeginUpdate(w, u, pk, payload, TRUE)
    \/ \E w \in Workers : ClearTags(w)
    \/ \E w \in Workers : GetTag(w)
    \/ \E w \in Workers : CreateTag(w)
    \/ \E w \in Workers : AddTag(w)
    \/ \E w \in Workers : ClearIngredients(w)
    \/ \E w \in Workers : GetIngredient(w)
    \/ \E w \in Workers : CreateIngredient(w)
    \/ \E w \in Workers : AddIngredient(w)
    \/ \E w \in Workers : Finish(w)
    \/ \E u \in Users : AllIdle /\ TagList(u, NoQuery)
    \/ \E u \in Users : AllIdle /\ IngredientList(u, NoQuery)
    \/ Reply

\* recipe writes of two workers, interleaved, and the listings read once
\* the writes are through
SpecInterleaved == Init /\ [][NextInterleaved]_vars

\* ------------------------------------------------------------------- claims
Owned(objs, u) == {i \in DOMAIN objs : objs[i].user = u}
Named(objs, u, n) == {i \in Owned(objs, u) : objs[i].name = n}

\* C1: whatever a user's request returns (a recipe, tag or ingredient
\* listing, a recipe lookup, the row an update answers with) is a row of that
\* user: a row of another user never appears in it.
C1_OwnershipIsolation ==
    \A i \in 1..Len(res.data) :
        /\ res.op \in RecipeOps =>
              res.data[i] \in Owned(recipes, res.user)
        /\ res.op \in TagOps =>
              res.data[i] \in Owned(tags, res.user)
        /\ res.op \in IngredientOps =>
              res.data[i] \in Owned(ingredients, res.user)

C1_Witness ==
    /\ res.op = "tag-list"
    /\ res.data # <<>>
    /\ \E t \in DOMAIN tags : tags[t].user # res.user
    /\ \E r \in DOMAIN recipes : recipes[r].user # res.user

\* C2: a successful recipe update whose payload has no `tags` leaves the
\* recipe's tags exactly as they were (so does a failed one), and one whose
\* `tags` is the empty list leaves the recipe without tags; the same, and
\* independently, for `ingredients`.
C2_OmittedVsEmpty ==
    [][res'.op \in RecipeUpdateOps =>
        LET pk == res'.pk
            p == res'.payload
        IN  /\ ~p.tags.given =>
                  RelOf(recipe_tags', pk) = RelOf(recipe_tags, pk)
            /\ ~p.ingredients.given =>
                  RelOf(recipe_ingredients', pk) = RelOf(recipe_ingredients, pk)
            /\ (res'.status = 200 /\ p.tags.given /\ p.tags.names = <<>>) =>
                  RelOf(recipe_tags', pk) = {}
            /\ (res'.status = 200 /\ p.ingredients.given
                    /\ p.ingredients.names = <<>>) =>
                  RelOf(recipe_ingredients', pk) = {}]_vars

C2_Witness ==
    /\ res.op \in RecipeUpdateOps
    /\ res.status = 200
    /\ res.payload.tags.given /\ res.payload.tags.names = <<>>
    /\ ~res.payload.ingredients.given
    /\ RelOf(recipe_tags, res.pk) = {}
    /\ RelOf(recipe_ingredients, res.pk) # {}
    /\ Owned(tags, res.user) # {}

\* C3: after a successful recipe update whose payload lists names for a
\* relation kind, the recipe is attached to exactly the acting user's
\* entities that bear a listed name, one per distinct name; an entity
\* attached before and not named is attached no more.
C3_ReplaceSemantics ==
    [][(res'.op \in RecipeUpdateOps /\ res'.status = 200) =>
        LET pk == res'.pk
            u == res'.user
            p == res'.payload
        IN  /\ p.tags.given =>
                  /\ RelOf(recipe_tags', pk) =
                        UNION {Named(tags', u, n) : n \in Range(p.tags.names)}
                  /\ Cardinality(RelOf(recipe_tags', pk)) =
                        Cardinality(Range(p.tags.names))
                  /\ \A t \in RelOf(recipe_tags, pk) :
                        tags[t].name \notin Range(p.tags.names) =>
                            t \notin RelOf(recipe_tags', pk)
            /\ p.ingredients.given =>
                  /\ RelOf(recipe_ingredients', pk) =
                        UNION {Named(ingredients', u, n) :
                                  n \in Range(p.ingredients.names)}
                  /\ Cardinality(RelOf(recipe_ingredients', pk)) =
                        Cardinality(Range(p.ingredients.names))
                  /\ \A t \in RelOf(recipe_ingredients, pk) :
                        ingredients[t].name \notin Range(p.ingredients.names)
                            => t \notin RelOf(recipe_ingredients', pk)]_vars

C3_Witness ==
    /\ res.op \in RecipeUpdateOps
    /\ res.status = 200
    /\ res.payload.tags = [given |-> TRUE, names |-> <<"Lunch", "Lunch">>]
    /\ Cardinality(RelOf(recipe_tags, res.pk)) = 1
    /\ Named(tags, res.user, "Breakfast") # {}

\* what a recipe write may add to a table: no old row changes, and a new row
\* is the acting user's, bears a listed name that no row of that user bore,
\* and is the only new row of that name
CreatesOnlyIfAbsent(old, new, u, list) ==
    /\ \A t \in DOMAIN old : t \in DOMAIN new /\ new[t] = old[t]
    /\ \A t \in DOMAIN new \ DOMAIN old :
          /\ new[t].user = u
          /\ list.given /\ new[t].name \in Range(list.names)
          /\ Named(old, u, new[t].name) = {}
          /\ Named(new, u, new[t].name) = {t}

\* C4: a recipe create or update creates an entity only for a listed name of
\* which the acting user has none, and otherwise attaches the existing one:
\* after a successful request the user has exactly one entity of each listed
\* name, attached to the recipe, however often the name was resolved.
C4_GetOrCreateIdempotent ==
    [][res'.op \in RecipeWriteOps =>
        LET u == res'.user
            p == res'.payload
        IN  /\ CreatesOnlyIfAbsent(tags, tags', u, p.tags)
            /\ CreatesOnlyIfAbsent(ingredients, ingredients', u, p.ingredients)
            /\ res'.status \in {200, 201} =>
                  /\ \A n \in Range(p.tags.names) :
                        /\ Cardinality(Named(tags', u, n)) = 1
                        /\ Named(tags', u, n) \subseteq
                               RelOf(recipe_tags', res'.pk)
                  /\ \A n \in Range(p.ingredients.names) :
                        /\ Cardinality(Named(ingredients', u, n)) = 1
                        /\ Named(ingredients', u, n) \subseteq
                               RelOf(recipe_ingredients', res'.pk)]_vars

C4_Witness ==
    /\ res.op = "recipe-create"
    /\ res.status = 201
    /\ res.payload.tags = [given |-> TRUE, names |-> <<"Lunch", "Lunch">>]
    /\ \E t \in DOMAIN tags :
          /\ Named(tags, res.user, "Lunch") = {t}
          /\ Cardinality({r \in DOMAIN recipes : <<r, t>> \in recipe_tags}) = 2

\* C6: a retrieve, update or delete of a recipe id that no recipe of the
\* acting user has (another user's, or nobody's) answers 404 and changes
\* nothing: no recipe row, scalar field or relation row.
C6_NotOwnedIsNotFound ==
    [][(/\ res'.op \in RecipeOps \ {"recipe-list", "recipe-create"}
        /\ res'.user \in Users
        /\ res'.pk \notin Owned(recipes, res'.user)) =>
            /\ res'.status = 404
            /\ res'.data = <<>>
            /\ UNCHANGED <<recipes, tags, ingredients, recipe_tags,
                           recipe_ingredients>>]_vars

C6_Witness ==
    /\ res.op = "recipe-destroy"
    /\ res.status = 404
    /\ res.pk \in DOMAIN recipes
    /\ recipes[res.pk].user # res.user
    /\ RelOf(recipe_tags, res.pk) # {}

C5_NoDuplicateUnderConcurrency ==
    /\ res.op = "tag-list" =>
          \A i, j \in 1..Len(res.data) :
              i # j => tags[res.data[i]].name # tags[res.data[j]].name
    /\ res.op = "ingredient-list" =>
          \A i, j \in 1..Len(res.data) :
              i # j => ingredients[res.data[i]].name
                           # ingredients[res.data[j]].name

\* the entities of a table that some recipe of user u is attached to
AssignedTo(objs, rel, u) ==
    {t \in Owned(objs, u) : \E r \in Owned(recipes, u) : <<r, t>> \in rel}

\* C8: a recipe listing with a `tags` and/or an `ingredients` id list returns
\* exactly the requester's recipes that have a relation to an id of each list
\* given; a list that is absent excludes nothing.
C8_FilterByRelation ==
    res.op = "recipe-list" =>
        Range(res.data) =
            {r \in Owned(recipes, res.user) :
                /\ res.query.tags.given =>
                      RelOf(recipe_tags, r) \cap res.query.tags.ids # {}
                /\ res.query.ingredients.given =>
                      RelOf(recipe_ingredients, r)
                          \cap res.query.ingredients.ids # {}}

\* C9: a tag or ingredient listing with assigned_only returns only entities
\* attached to a recipe of the requester.
C9_AssignedOnly ==
    /\ (res.op = "tag-list" /\ res.query.assigned_only) =>
          Range(res.data) \subseteq AssignedTo(tags, recipe_tags, res.user)
    /\ (res.op = "ingredient-list" /\ res.query.assigned_only) =>
          Range(res.data) \subseteq
              AssignedTo(ingredients, recipe_ingredients, res.user)

Occurrences(data, t) == Cardinality({i \in 1..Len(data) : data[i] = t})

C11_UniqueNamePerUser ==
    /\ \A s, t \in DOMAIN tags :
          (tags[s].user = tags[t].user /\ tags[s].name = tags[t].name)
              => s = t
    /\ \A s, t \in DOMAIN ingredients :
          (/\ ingredients[s].user = ingredients[t].user
           /\ ingredients[s].name = ingredients[t].name) => s = t

\* C12: a valid recipe create, or update of a recipe of the acting user,
\* raises no error whatever names it lists: it succeeds, and afterwards the
\* recipe is attached to an entity of the acting user of every listed name.
C12_NameResolutionNeverFails ==
    [][(/\ res'.op \in RecipeWriteOps
        /\ res'.user \in Users
        /\ res'.status \notin {400, 404}) =>
        LET u == res'.user
            p == res'.payload
        IN  /\ res'.status \in {200, 201}
            /\ \A n \in Range(p.tags.names) :
                  Named(tags', u, n) \cap RelOf(recipe_tags', res'.pk) # {}
            /\ \A n \in Range(p.ingredients.names) :
                  Named(ingredients', u, n)
                      \cap RelOf(recipe_ingredients', res'.pk) # {}]_vars

\* C13: a recipe create or update that fails leaves the recipes, their
\* scalar fields and their relations as they were before the request.
C13_AllOrNothing ==
    [][(res'.op \in RecipeWriteOps /\ res'.status \notin {200, 201}) =>
          UNCHANGED <<recipes, recipe_tags, recipe_ingredients>>]_vars

\* C14 as stated: a successful PUT of a recipe sets every scalar field that
\* its payload leaves out to the field's default, and keeps the owner.
C14_FullUpdateResetsAbsent ==
    [][(res'.op = "recipe-update" /\ res'.status = 200) =>
        LET pk == res'.pk
            p == res'.payload
        IN  /\ p.link = Absent => recipes'[pk].link = NoLink
            /\ p.link # Absent => recipes'[pk].link = p.link
            /\ recipes'[pk].title = p.title
            /\ recipes'[pk].user = recipes[pk].user]_vars

\* C14 amended: a PUT of a recipe must carry the required scalar fields (it
\* is answered 400 and changes nothing otherwise); a successful one gives
\* every scalar field of the payload the payload's value and leaves an
\* optional scalar field that the payload omits, and the owner, as they were.
C14_FullUpdateKeepsAbsent ==
    [][res'.op = "recipe-update" =>
        LET pk == res'.pk
            p == res'.payload
        IN  /\ (pk \in Owned(recipes, res'.user) /\ p.title = Absent) =>
                  res'.status = 400 /\ UNCHANGED recipes
            /\ res'.status = 200 =>
                  /\ recipes'[pk].title = p.title
                  /\ p.link # Absent => recipes'[pk].link = p.link
                  /\ p.link = Absent => recipes'[pk].link = recipes[pk].link
                  /\ recipes'[pk].user = recipes[pk].user]_vars

C14_Witness ==
    /\ res.op = "recipe-update"
    /\ res.status = 200
    /\ res.payload.link = Absent
    /\ recipes[res.pk].link \in Links
    /\ recipes[res.pk].title = res.payload.title

\* C15: a successful PATCH of a recipe gives every scalar field of the
\* payload the payload's value and leaves every scalar field that the
\* payload omits as it was.
C15_PartialUpdateFrame ==
    [][(res'.op = "recipe-partial-update" /\ res'.status = 200) =>
        LET pk == res'.pk
            p == res'.payload
        IN  /\ recipes'[pk].title =
                  IF p.title = Absent THEN recipes[pk].title ELSE p.title
            /\ recipes'[pk].link =
                  IF p.link = Absent THEN recipes[pk].link ELSE p.link]_vars

C15_Witness ==
    /\ res.op = "recipe-partial-update"
    /\ res.status = 200
    /\ res.payload.title = "Salad"
    /\ res.payload.link = Absent
    /\ recipes[res.pk].title = "Salad"
    /\ recipes[res.pk].link \in Links

Without(objs, pk) == [i \in DOMAIN objs \ {pk} |-> objs[i]]

\* C16: a successful delete of a tag (of an ingredient) removes that row and
\* the relation rows that name it, and no recipe nor anything else; a
\* successful delete of a recipe removes that row and its relation rows, and
\* no tag nor ingredient.
C16_DeleteDoesNotCascade ==
    [][/\ (res'.op = "tag-destroy" /\ res'.status = 204) =>
             /\ tags' = Without(tags, res'.pk)
             /\ recipe_tags' = {q \in recipe_tags : q[2] # res'.pk}
             /\ UNCHANGED <<recipes, ingredients, recipe_ingredients>>
       /\ (res'.op = "ingredient-destroy" /\ res'.status = 204) =>
             /\ ingredients' = Without(ingredients, res'.pk)
             /\ recipe_ingredients' =
                   {q \in recipe_ingredients : q[2] # res'.pk}
             /\ UNCHANGED <<recipes, tags, recipe_tags>>
       /\ (res'.op = "recipe-destroy" /\ res'.status = 204) =>
             /\ recipes' = Without(recipes, res'.pk)
             /\ recipe_tags' = {q \in recipe_tags : q[1] # res'.pk}
             /\ recipe_ingredients' =
                   {q \in recipe_ingredients : q[1] # res'.pk}
             /\ UNCHANGED <<tags, ingredients>>]_vars

\* the only recipe there ever was is deleted, and the tags and ingredients
\* made along with it are still there
C16_Witness ==
    /\ res.op = "recipe-destroy"
    /\ res.status = 204
    /\ next_recipe_id = 2
    /\ recipes = <<>>
    /\ Cardinality(Owned(tags, res.user)) = 2
    /\ Owned(ingredients, res.user) # {}
    /\ recipe_tags = {} /\ recipe_ingredients = {}

\* C17: every recipe, tag and ingredient operation requested without a
\* credential is answered 401, with no data, and changes no table.
C17_AuthRequired ==
    [][res'.user = AnonymousUser =>
          /\ res'.op \in RecipeOps \cup TagOps \cup IngredientOps
          /\ res'.status = 401
          /\ res'.data = <<>>
          /\ UNCHANGED <<recipes, tags, ingredients, recipe_tags,
                         recipe_ingredients, next_recipe_id, next_tag_id,
                         next_ingredient_id>>]_vars

\* a delete without a credential of a recipe that is there, and is still
\* there with its tags
C17_Witness ==
    /\ res.user = AnonymousUser
    /\ res.op = "recipe-destroy"
    /\ res.status = 401
    /\ res.pk \in DOMAIN recipes
    /\ RelOf(recipe_tags, res.pk) # {}

\* C18: every tag and every ingredient attached to a recipe is a row of the
\* recipe's owner; after a successful recipe write each listed name is
\* attached as an entity of the acting user, also when another user has an
\* entity of that name.
C18_AttachedEntitiesSameOwner ==
    /\ \A q \in recipe_tags :
          /\ q[1] \in DOMAIN recipes /\ q[2] \in DOMAIN tags
          /\ tags[q[2]].user = recipes[q[1]].user
    /\ \A q \in recipe_ingredients :
          /\ q[1] \in DOMAIN recipes /\ q[2] \in DOMAIN ingredients
          /\ ingredients[q[2]].user = recipes[q[1]].user
    /\ (res.op \in RecipeWriteOps /\ res.status \in {200, 201}) =>
          /\ \A n \in Range(res.payload.tags.names) :
                \E t \in Named(tags, res.user, n) :
                    <<res.pk, t>> \in recipe_tags
          /\ \A n \in Range(res.payload.ingredients.names) :
                \E t \in Named(ingredients, res.user, n) :
                    <<res.pk, t>> \in recipe_ingredients

\* a recipe write names a tag that another user had already: both users now
\* have one of that name
C18_Witness ==
    /\ res.op \in RecipeWriteOps
    /\ res.status \in {200, 201}
    /\ \E n \in Range(res.payload.tags.names) :
          \E t \in Named(tags, res.user, n), o \in DOMAIN tags :
              /\ tags[o].user # res.user /\ tags[o].name = n
              /\ o < t
              /\ <<res.pk, t>> \in recipe_tags

\* C19: a recipe create or update removes and renames no tag and no
\* ingredient: every entity there before the request is there after it,
\* unchanged, attached or not, and an unfiltered tag or ingredient listing
\* shows every entity of the requester.
C19_WritesKeepEntities ==
    [][/\ res'.op \in RecipeWriteOps =>
             /\ \A t \in DOMAIN tags :
                   t \in DOMAIN tags' /\ tags'[t] = tags[t]
             /\ \A t \in DOMAIN ingredients :
                   t \in DOMAIN ingredients' /\ ingredients'[t] = ingredients[t]
       /\ (res'.op = "tag-list" /\ ~res'.query.assigned_only) =>
             Range(res'.data) = Owned(tags', res'.user)
       /\ (res'.op = "ingredient-list" /\ ~res'.query.assigned_only) =>
             Range(res'.data) = Owned(ingredients', res'.user)]_vars

\* an update has replaced the tag of the only recipe there ever was: the
\* tag it had before is attached to nothing and still there
C19_Witness ==
    /\ res.op \in RecipeUpdateOps
    /\ res.status = 200
    /\ res.payload.tags = [given |-> TRUE, names |-> <<"Lunch">>]
    /\ next_recipe_id = 2
    /\ \E t \in Named(tags, res.user, "Breakfast") :
          /\ \A q \in recipe_tags : q[2] # t
          /\ \E l \in Named(tags, res.user, "Lunch") :
                t < l /\ <<res.pk, l>> \in recipe_tags

====
